---- MODULE Spec2Model ----
(***************************************************************************)
(* EmpowerMS (Wigley_EmpowerMS.py): the logistic risk model, the smoking   *)
(* cessation benefit and the Streamlit script that calls them.             *)
(*                                                                         *)
(* The program computes in IEEE-754 binary64 (Python float, numpy.float64).*)
(* The model keeps that arithmetic bit for bit: a float is a sign, a       *)
(* 53-bit significand and an exponent, every operation is the exact        *)
(* result rounded to nearest, ties to even, with overflow to infinity,     *)
(* gradual underflow, signed zeros and NaN.  Significands do not fit the   *)
(* 32-bit integers of TLC, so they are held as little-endian sequences of  *)
(* 13-bit limbs.                                                           *)
(***************************************************************************)
EXTENDS Integers, Sequences, FiniteSets, TLC

(***************************************************************************)
(* Natural numbers of any size: little-endian limb sequences, base 2^13,   *)
(* no leading zero limb; << >> is 0.                                       *)
(***************************************************************************)
LimbBits == 13

Base == 2^LimbBits

Max(a, b) == IF a >= b THEN a ELSE b

Min(a, b) == IF a <= b THEN a ELSE b

Digit(a, i) == IF i >= 1 /\ i <= Len(a) THEN a[i] ELSE 0

\* a without its leading zero limbs
BNorm(a) ==
  LET nz == {i \in 1..Len(a) : a[i] # 0}
  IN  IF nz = {} THEN << >>
      ELSE SubSeq(a, 1, CHOOSE i \in nz : \A j \in nz : j <= i)

\* a machine integer 0 <= n < 2^31
BFromNat(n) == BNorm(<<n % Base, (n \div Base) % Base, n \div (Base * Base)>>)

\* the number of bits of a machine integer 0 <= n < 2^31
BitLen(n) == Cardinality({k \in 0..30 : 2^k <= n})

BBits(a) == IF Len(a) = 0 THEN 0 ELSE LimbBits * (Len(a) - 1) + BitLen(a[Len(a)])

\* a + b + c for a carry c of 0 or 1.  The carry into limb i is 1 when a limb
\* below it overflows and every limb between them is Base - 1.
AddCarry(a, b, c) ==
  LET s(i) == Digit(a, i) + Digit(b, i)
      carry(i) ==
        IF \/ \E j \in 1..(i - 1) : s(j) >= Base /\ \A t \in (j + 1)..(i - 1) : s(t) = Base - 1
           \/ c = 1 /\ \A t \in 1..(i - 1) : s(t) = Base - 1
        THEN 1 ELSE 0
  IN  BNorm([i \in 1..(Max(Len(a), Len(b)) + 1) |-> (s(i) + carry(i)) % Base])

BAdd(a, b) == AddCarry(a, b, 0)

\* a - b for a >= b.  Limb i borrows when a limb below it is too small and
\* every limb between them is a tie.
BSub(a, b) ==
  LET borrow(i) ==
        IF \E j \in 1..(i - 1) :
              Digit(a, j) < Digit(b, j) /\ \A t \in (j + 1)..(i - 1) : Digit(a, t) = Digit(b, t)
        THEN 1 ELSE 0
  IN  BNorm([i \in 1..Len(a) |-> (a[i] - Digit(b, i) - borrow(i) + Base) % Base])

\* -1, 0, 1 as a < b, a = b, a > b
BCmp(a, b) ==
  IF a = b THEN 0
  ELSE IF Len(a) # Len(b) THEN (IF Len(a) < Len(b) THEN -1 ELSE 1)
  ELSE LET df == {i \in 1..Len(a) : a[i] # b[i]}
           i  == CHOOSE j \in df : \A t \in df : t <= j
       IN  IF a[i] < b[i] THEN -1 ELSE 1

\* the number whose limb k is col[k], for columns 0 <= col[k] < 2^31: the low,
\* middle and high limb of every column, added up
Columns(col) ==
  BAdd(BAdd([k \in DOMAIN col |-> col[k] % Base],
            <<0>> \o [k \in DOMAIN col |-> (col[k] \div Base) % Base]),
       <<0, 0>> \o [k \in DOMAIN col |-> col[k] \div (Base * Base)])

\* x * y for x of at most 8 limbs: column k of the schoolbook product is the
\* sum of x[i] * y[k + 1 - i], below 2^29
MulShort(x, y) ==
  Columns([k \in 1..(Len(x) + Len(y)) |->
               Digit(x, 1) * Digit(y, k)     + Digit(x, 2) * Digit(y, k - 1)
             + Digit(x, 3) * Digit(y, k - 2) + Digit(x, 4) * Digit(y, k - 3)
             + Digit(x, 5) * Digit(y, k - 4) + Digit(x, 6) * Digit(y, k - 5)
             + Digit(x, 7) * Digit(y, k - 6) + Digit(x, 8) * Digit(y, k - 7)])

BMul(a, b) ==
  MulShort(IF Len(a) <= Len(b) THEN a ELSE b, IF Len(a) <= Len(b) THEN b ELSE a)

\* a * d for one limb 0 <= d < Base
BMulSmall(a, d) ==
  BAdd([k \in 1..Len(a) |-> (a[k] * d) % Base],
       <<0>> \o [k \in 1..Len(a) |-> (a[k] * d) \div Base])

\* floor(a / d) and a mod d for a small divisor 0 < d < 2^17, from the top limb
\* down.  st is the loop state: the limb i to divide next, the remainder r
\* and the quotient limbs q so far.
RECURSIVE DivSmallFrom(_, _, _)
DivSmallFrom(a, d, st) ==
  IF st.i = 0 THEN [q |-> BNorm(st.q), r |-> st.r]
  ELSE DivSmallFrom(a, d, [i |-> st.i - 1,
                           r |-> (st.r * Base + a[st.i]) % d,
                           q |-> <<(st.r * Base + a[st.i]) \div d>> \o st.q])

BDivSmall(a, d) == DivSmallFrom(a, d, [i |-> Len(a), r |-> 0, q |-> << >>])

\* a * 2^n
BShl(a, n) ==
  LET w == n \div LimbBits
      b == n % LimbBits
  IN  BNorm([i \in 1..(Len(a) + w + 1) |->
               ((Digit(a, i - w) * 2^b) % Base) + (Digit(a, i - w - 1) \div 2^(LimbBits - b))])

\* floor(a / 2^n)
BShr(a, n) ==
  LET w == n \div LimbBits
      b == n % LimbBits
  IN  BNorm([i \in 1..Max(Len(a) - w, 0) |->
               (a[i + w] \div 2^b) + (Digit(a, i + w + 1) % 2^b) * 2^(LimbBits - b)])

\* bit n (0 is the lowest) of a
BBit(a, n) == (Digit(a, n \div LimbBits + 1) \div 2^(n % LimbBits)) % 2

\* whether a mod 2^n is not 0
BLowNonZero(a, n) ==
  \/ \E i \in 1..Min(Len(a), n \div LimbBits) : a[i] # 0
  \/ Digit(a, n \div LimbBits + 1) % 2^(n % LimbBits) # 0

\* a / 2^n rounded to the nearest integer, ties to even, for n > 0
RoundShift(a, n) ==
  AddCarry(BShr(a, n), << >>,
           IF BBit(a, n - 1) = 1 /\ (BLowNonZero(a, n - 1) \/ BBit(a, n) = 1) THEN 1 ELSE 0)

\* One limb of a long division (Knuth's algorithm D): the largest qd with
\* qd * d <= cur, for cur < d * Base and d's top limb >= Base / 2.  The
\* estimate from the top limbs is never too small and at most 2 too large.
RECURSIVE QFix(_, _, _)
QFix(cur, d, qd) ==
  IF BCmp(BMulSmall(d, qd), cur) > 0 THEN QFix(cur, d, qd - 1) ELSE qd

QDigit(cur, d) ==
  IF BCmp(cur, d) < 0 THEN 0
  ELSE QFix(cur, d, Min(Base - 1,
                        (Digit(cur, Len(d) + 1) * Base + Digit(cur, Len(d))) \div d[Len(d)]))

\* the loop state after the quotient limb qd of the dividend cur
DivSub(i, q, cur, d, qd) ==
  [i |-> i, r |-> BSub(cur, BMulSmall(d, qd)), q |-> <<qd>> \o q]

DivStep(i, q, cur, d) == DivSub(i, q, cur, d, QDigit(cur, d))

\* st is the loop state: the limb i of n to bring down next, the remainder r
\* and the quotient limbs q so far
RECURSIVE DivLimbs(_, _, _)
DivLimbs(n, d, st) ==
  IF st.i = 0 THEN [q |-> BNorm(st.q), r |-> st.r]
  ELSE DivLimbs(n, d, DivStep(st.i - 1, st.q, BNorm(<<Digit(n, st.i)>> \o st.r), d))

\* the remainder of the scaled division, scaled back
Unscale(x, sh) == [q |-> x.q, r |-> BShr(x.r, sh)]

\* floor(n / d) and n mod d, for d # 0: both are first scaled so that d's top
\* limb is at least Base / 2
BDivMod(n, d) ==
  LET sh == LimbBits - BitLen(d[Len(d)])
  IN  Unscale(DivLimbs(BShl(n, sh), BShl(d, sh), [i |-> Len(n) + 1, r |-> << >>, q |-> << >>]), sh)

(***************************************************************************)
(* IEEE-754 binary64.  A float is [k, s, m, e]: k is "fin", "inf" or "nan",*)
(* s the sign (1 or -1), and a finite float is s * m * 2^e with m < 2^53   *)
(* and either m >= 2^52 (normal) or e = -1074 (subnormal, zero: m = 0).    *)
(***************************************************************************)
Precision == 53

MinExp == -1074

MaxBits == 1024

NaN == [k |-> "nan", s |-> 1, m |-> << >>, e |-> MinExp]

Inf(s) == [k |-> "inf", s |-> s, m |-> << >>, e |-> MinExp]

Zero(s) == [k |-> "fin", s |-> s, m |-> << >>, e |-> MinExp]

IsNaN(a) == a.k = "nan"

IsZero(a) == a.k = "fin" /\ Len(a.m) = 0

\* s * q * 2^t for q of at most 53 bits: zero, finite or past the largest float
Finite(s, q, t) ==
  IF Len(q) = 0 THEN Zero(s)
  ELSE IF t + BBits(q) > MaxBits THEN Inf(s)
  ELSE [k |-> "fin", s |-> s, m |-> q, e |-> t]

\* the rounding may have carried into a 54th bit
Renorm(s, q, t) ==
  IF BBits(q) > Precision THEN Finite(s, BShr(q, 1), t + 1) ELSE Finite(s, q, t)

\* s * m * 2^e rounded to a multiple of 2^t
RoundTo(s, m, e, t) ==
  Renorm(s, IF t <= e THEN BShl(m, e - t) ELSE RoundShift(m, t - e), t)

\* the exact value s * m * 2^e rounded to the nearest float, ties to even; the
\* exponent of the result's last bit is that of m's 53rd bit from the top,
\* and not below MinExp
Round(s, m, e) ==
  IF Len(m) = 0 THEN Zero(s)
  ELSE RoundTo(s, m, e, Max(e + BBits(m) - Precision, MinExp))

Sign(n) == IF n < 0 THEN -1 ELSE 1

Abs(n) == IF n < 0 THEN -n ELSE n

\* float(n) for a Python int
FromInt(n) == Round(Sign(n), BFromNat(Abs(n)), 0)

FNeg(a) == IF IsNaN(a) THEN a ELSE [a EXCEPT !.s = -a.s]

\* a + b where x is a.m at b's exponent and c compares x with b.m
AddSigned(a, b, x, c) ==
  IF a.s # b.s /\ c = 0 THEN Zero(1)
  ELSE Round(IF a.s = b.s \/ c > 0 THEN a.s ELSE b.s,
             IF a.s = b.s THEN BAdd(x, b.m)
             ELSE IF c > 0 THEN BSub(x, b.m) ELSE BSub(b.m, x),
             b.e)

AddShifted(a, b, x) == AddSigned(a, b, x, BCmp(x, b.m))

\* a + b for finite a, b that are not zero, a.e >= b.e; a b more than 55
\* binary places below a does not change it
AddAligned(a, b) ==
  IF a.e - b.e > Precision + 2 THEN a ELSE AddShifted(a, b, BShl(a.m, a.e - b.e))

FAdd(a, b) ==
  IF IsNaN(a) \/ IsNaN(b) THEN NaN
  ELSE IF a.k = "inf" THEN (IF b.k = "inf" /\ b.s # a.s THEN NaN ELSE a)
  ELSE IF b.k = "inf" THEN b
  ELSE IF IsZero(a) /\ IsZero(b) THEN Zero(IF a.s = b.s THEN a.s ELSE 1)
  ELSE IF IsZero(a) THEN b
  ELSE IF IsZero(b) THEN a
  ELSE AddAligned(IF a.e >= b.e THEN a ELSE b, IF a.e >= b.e THEN b ELSE a)

FSub(a, b) == FAdd(a, FNeg(b))

FMul(a, b) ==
  IF IsNaN(a) \/ IsNaN(b) THEN NaN
  ELSE IF a.k = "inf" \/ b.k = "inf"
       THEN (IF IsZero(a) \/ IsZero(b) THEN NaN ELSE Inf(a.s * b.s))
  ELSE Round(a.s * b.s, BMul(a.m, b.m), a.e + b.e)

\* a / b from x, the quotient and remainder of a.m * 2^sh by b.m: the quotient
\* gets one more bit that says whether anything is left
DivRound(a, b, sh, x) ==
  Round(a.s * b.s, AddCarry(x.q, x.q, IF Len(x.r) = 0 THEN 0 ELSE 1), a.e - b.e - sh - 1)

\* a / b for finite a, b that are not zero: sh makes the quotient 55 bits or more
DivFinite(a, b, sh) == DivRound(a, b, sh, BDivMod(BShl(a.m, sh), b.m))

\* numpy.float64 division: x / 0 is an infinity and 0 / 0 is NaN (a
\* RuntimeWarning, no exception)
FDiv(a, b) ==
  IF IsNaN(a) \/ IsNaN(b) THEN NaN
  ELSE IF a.k = "inf" THEN (IF b.k = "inf" THEN NaN ELSE Inf(a.s * b.s))
  ELSE IF b.k = "inf" THEN Zero(a.s * b.s)
  ELSE IF IsZero(b) THEN (IF IsZero(a) THEN NaN ELSE Inf(a.s * b.s))
  ELSE IF IsZero(a) THEN Zero(a.s * b.s)
  ELSE DivFinite(a, b, Precision + 2 + Max(0, BBits(b.m) - BBits(a.m)))

\* -1, 0, 1 as a < b, a = b, a > b, for a and b not NaN
MagCmp(a, b) ==
  IF a.k = "inf" \/ b.k = "inf"
  THEN (IF a.k = b.k THEN 0 ELSE IF a.k = "inf" THEN 1 ELSE -1)
  ELSE IF a.e # b.e THEN (IF a.e > b.e THEN 1 ELSE -1)
  ELSE BCmp(a.m, b.m)

FCmp(a, b) ==
  IF IsZero(a) /\ IsZero(b) THEN 0
  ELSE IF IsZero(a) THEN -b.s
  ELSE IF IsZero(b) THEN a.s
  ELSE IF a.s # b.s THEN a.s
  ELSE a.s * MagCmp(a, b)

FEq(a, b) == ~IsNaN(a) /\ ~IsNaN(b) /\ FCmp(a, b) = 0

FLt(a, b) == ~IsNaN(a) /\ ~IsNaN(b) /\ FCmp(a, b) < 0

FLe(a, b) == ~IsNaN(a) /\ ~IsNaN(b) /\ FCmp(a, b) <= 0

(***************************************************************************)
(* numpy.exp.  Its result is within one unit in the last place of e^x,     *)
(* and which of the two floats around e^x it is depends on the build       *)
(* (the C library, the SIMD kernel numpy dispatches to).  FExp(x) is the   *)
(* set of the results a build can give: the float below e^x and the float  *)
(* above it, or e^x alone where that is a float.  On one machine the       *)
(* function is a function: equal arguments get equal results.              *)
(* x = k ln 2 + r with 0 <= r < ln 2, and e^x = 2^k e^r; e^r is summed     *)
(* from its series in fixed point with 91 fractional bits, 38 more than a  *)
(* float keeps.  |x| >= 1024 is past the largest float (e^710) and below   *)
(* the smallest (e^-745).                                                  *)
(***************************************************************************)
FracBits == 7 * LimbBits

\* floor(ln 2 * 2^FracBits)
Ln2 == <<7580, 4728, 4951, 7415, 7144, 2143, 5678>>

\* 1 in fixed point
FixedOne == <<0, 0, 0, 0, 0, 0, 0, 1>>

\* the loop state after the term t
ExpNext(st, t) == [n |-> st.n + 1, t |-> t, acc |-> BAdd(st.acc, t)]

\* One term of the series of e^r: st holds the previous term t = r^(n-1)/(n-1)!
\* and the sum acc of the terms so far; the next term is t * r / n.
ExpTerm(r, st) == ExpNext(st, BDivSmall(BShr(BMul(st.t, r), FracBits), st.n).q)

\* 1 + r + r^2/2 + ..., three terms at a time until the term is 0 (a term
\* after a 0 term is 0)
RECURSIVE ExpSeries(_, _)
ExpSeries(r, st) ==
  IF Len(st.t) = 0 THEN st.acc
  ELSE ExpSeries(r, ExpTerm(r, ExpTerm(r, ExpTerm(r, st))))

\* the floats around m * 2^e that are multiples of 2^t: q is m * 2^e / 2^t
\* cut off, and exact says nothing was cut off.  A value that rounds to 0 is 0.
ExpBounds(q, t, exact) ==
  IF exact THEN {Finite(1, q, t)}
  ELSE {Finite(1, q, t), Renorm(1, BAdd(q, <<1>>), t)}

ExpCut(m, e, t) ==
  IF e + BBits(m) < MinExp THEN {Zero(1)}
  ELSE IF t <= e THEN {Finite(1, BShl(m, e - t), t)}
  ELSE ExpBounds(BShr(m, t - e), t, ~BLowNonZero(m, t - e))

\* the results for the value m * 2^e of the series, m # 0
ExpRounded(m, e) == ExpCut(m, e, Max(e + BBits(m) - Precision, MinExp))

\* e^x from d, the quotient and remainder of |x| by ln 2: for x < 0 with a
\* remainder, x = -(q + 1) ln 2 + (ln 2 - remainder)
ExpReduced(a, d) ==
  LET neg == a.s < 0 /\ Len(d.r) # 0
      kq  == Digit(d.q, 1)
  IN  ExpRounded(
            ExpSeries(IF neg THEN BSub(Ln2, d.r) ELSE d.r, [n |-> 1, t |-> FixedOne, acc |-> FixedOne]),
            (IF neg THEN -(kq + 1) ELSE a.s * kq) - FracBits)

\* |x| in fixed point, for |x| < 1024
ExpFixed(a) ==
  IF a.e + FracBits >= 0 THEN BShl(a.m, a.e + FracBits) ELSE BShr(a.m, -(a.e + FracBits))

FExp(a) ==
  IF IsNaN(a) THEN {NaN}
  ELSE IF a.k = "inf" THEN (IF a.s > 0 THEN {a} ELSE {Zero(1)})
  ELSE IF BBits(a.m) + a.e > 10 THEN (IF a.s > 0 THEN {Inf(1)} ELSE {Zero(1)})
  ELSE ExpReduced(a, BDivMod(ExpFixed(a), Ln2))

(***************************************************************************)
(* Values of the program.  A covariate value is a decimal with one         *)
(* fractional digit (the widgets step by 1 or by 0.1) and is held in       *)
(* tenths: 25 is 2.5, 10 is the int 1 or the float 1.0.  A coefficient is  *)
(* a decimal literal with four fractional digits and is held in            *)
(* ten-thousandths.  Either becomes a float where it is computed with.  A  *)
(* dict is the sequence of its <<key, value>> pairs in insertion order,    *)
(* which is the order a for loop visits them in.                           *)
(***************************************************************************)
\* the float nearest to the decimal n / scale
Decimal(n, scale) == FDiv(FromInt(n), FromInt(scale))

\* a widget value read as whole units
Units(n) == FromInt(n)

\* a covariate value as the float it is multiplied as
FromTenths(n) == Decimal(n, 10)

One == FromInt(1)

Hundred == FromInt(100)

DictKeys(d) == {d[i][1] : i \in 1..Len(d)}

DictGet(d, key) == d[CHOOSE j \in 1..Len(d) : d[j][1] = key][2]

\* d[key] = v: in place when the key is there, appended when it is not
DictSet(d, key, v) ==
  IF key \in DictKeys(d)
  THEN [i \in 1..Len(d) |-> IF d[i][1] = key THEN <<key, v>> ELSE d[i]]
  ELSE Append(d, <<key, v>>)

DictCopy(d) == d

\* the coefficient literals, in ten-thousandths
log_odds_coefficients ==
  ("Intercept" :> 4880) @@
  ("BpwMS" :> 48613) @@
  ("Current Smoker" :> 168601) @@
  ("BpwMS * Current Smoker" :> -185033) @@
  ("Pack-Years" :> 1531) @@
  ("BpwMS * Pack-Years" :> -4960) @@
  ("Age at Baseline" :> 56) @@
  ("Sex (Male)" :> -22452) @@
  ("Follow-up Interval" :> 3507)

\* log_odds_coefficients[key], the float
Coefficient(key) == Decimal(log_odds_coefficients[key], 10000)

\* the for loop of calculate_risk: log_odds += coefficient * value.  st is the
\* loop state: the pair i to visit next and log_odds so far.
RECURSIVE SumTerms(_, _)
SumTerms(inputs_, st) ==
  IF st.i > Len(inputs_) THEN st.log_odds
  ELSE SumTerms(inputs_,
         [i |-> st.i + 1,
          log_odds |-> FAdd(st.log_odds,
                            FMul(Coefficient(inputs_[st.i][1]), FromTenths(inputs_[st.i][2])))])

\* 1 + probability, the sign slipped
OnePlus(probability) == FAdd(One, probability)

\* risk_of_worsening = 1 - probability
RiskOfWorsening(probability) == FSub(One, probability)

\* the locals of calculate_risk at its return
RiskLocals(log_odds, odds, probability) ==
  [raised |-> "none", log_odds |-> log_odds, odds |-> odds, probability |-> probability,
   risk_of_worsening |-> RiskOfWorsening(probability)]

\* probability = odds / (1 + odds)
Probability(log_odds, odds) == RiskLocals(log_odds, odds, FDiv(odds, FAdd(One, odds)))

\* odds = np.exp(log_odds)
Odds(log_odds) == {Probability(log_odds, odds) : odds \in FExp(log_odds)}

\* calculate_risk(inputs): its locals at the return, or the exception it
\* raises; one element for each result np.exp can give.
\* A key the coefficient table lacks is a KeyError; a key the dict lacks is
\* simply not visited.
calculate_risk(inputs_) ==
  IF DictKeys(inputs_) \subseteq DOMAIN log_odds_coefficients
  THEN Odds(SumTerms(inputs_, [i |-> 1, log_odds |-> Coefficient("Intercept")]))
  ELSE {[raised |-> "KeyError"]}

\* inputs_no_smoking: the copy with the smoking status and its interaction set to 0
InputsNoSmoking(inputs_) ==
  DictSet(DictSet(DictCopy(inputs_), "Current Smoker", 0), "BpwMS * Current Smoker", 0)

\* the caller's dict had the two keys been set in it, without the copy
InPlace(inputs_) == InputsNoSmoking(inputs_)

\* the caller's dict after calculate_smoking_cessation_benefit(inputs): the
\* function writes to its copy only
CallerInputsAfter(inputs_) == inputs_

\* (current_risk + risk_no_smoking) / current_risk, the sign slipped
SumOverCurrent(current_risk, risk_no_smoking) ==
  FDiv(FAdd(current_risk, risk_no_smoking), current_risk)

\* relative_risk_reduction = (current_risk - risk_no_smoking) / current_risk
RelativeRiskReduction(current_risk, risk_no_smoking) ==
  FDiv(FSub(current_risk, risk_no_smoking), current_risk)

\* x * 100
Percent(x) == FMul(x, Hundred)

\* the locals of calculate_smoking_cessation_benefit at its return and the
\* triple it returns
BenefitLocals(inputs_no_smoking, cur, nos, relative_risk_reduction) ==
  [raised |-> "none",
   log_odds |-> cur.log_odds,
   log_odds_no_smoking |-> nos.log_odds,
   current_risk |-> cur.risk_of_worsening,
   inputs_no_smoking |-> inputs_no_smoking,
   risk_no_smoking |-> nos.risk_of_worsening,
   relative_risk_reduction |-> relative_risk_reduction,
   value |-> <<Percent(relative_risk_reduction),
               Percent(cur.risk_of_worsening),
               Percent(nos.risk_of_worsening)>>]

\* cur and nos are what the two calls of calculate_risk gave
Benefit(inputs_no_smoking, cur, nos) ==
  IF cur.raised # "none" THEN [raised |-> cur.raised]
  ELSE IF nos.raised # "none" THEN [raised |-> nos.raised]
  ELSE BenefitLocals(inputs_no_smoking, cur, nos,
                     RelativeRiskReduction(cur.risk_of_worsening, nos.risk_of_worsening))

\* the two calls ran on one machine: the same log_odds got the same odds
SameExp(cur, nos) ==
  (cur.raised = "none" /\ nos.raised = "none" /\ cur.log_odds = nos.log_odds)
    => cur.odds = nos.odds

\* curs and noss are what the two calls of calculate_risk can give
BenefitOutcomes(inputs_no_smoking, curs, noss) ==
  {Benefit(inputs_no_smoking, pair[1], pair[2]) :
     pair \in {both \in curs \X noss : SameExp(both[1], both[2])}}

\* calculate_smoking_cessation_benefit(inputs): its locals at the return and
\* the returned triple, or the exception it raises; one element for each
\* pair of results np.exp can give
calculate_smoking_cessation_benefit(inputs_) ==
  BenefitOutcomes(InputsNoSmoking(inputs_), calculate_risk(inputs_),
                  calculate_risk(InputsNoSmoking(inputs_)))

\* the decimal digits of a # 0
RECURSIVE DecDigits(_)
DecDigits(a) ==
  IF Len(BDivSmall(a, 10).q) = 0 THEN ToString(BDivSmall(a, 10).r)
  ELSE DecDigits(BDivSmall(a, 10).q) \o ToString(BDivSmall(a, 10).r)

\* |x| * 100 rounded to the nearest integer, ties to even
Hundredths(x) ==
  IF x.e >= 0 THEN BShl(BMulSmall(x.m, 100), x.e) ELSE RoundShift(BMulSmall(x.m, 100), -x.e)

\* the text of d.q hundreds of hundredths and d.r hundredths, with the sign s
FmtHundredths(s, d) ==
  (IF s < 0 THEN "-" ELSE "")
    \o (IF Len(d.q) = 0 THEN "0" ELSE DecDigits(d.q))
    \o "." \o ToString(d.r \div 10) \o ToString(d.r % 10)

\* format(x, ".2f"): the decimal with two fractional digits nearest to x
Fmt2(x) ==
  IF IsNaN(x) THEN "nan"
  ELSE IF x.k = "inf" THEN (IF x.s < 0 THEN "-inf" ELSE "inf")
  ELSE FmtHundredths(x.s, BDivSmall(Hundredths(x), 100))

(***************************************************************************)
(* The presentation script.  A widget value is held as the widget returns  *)
(* it: the select boxes an int, the age an int, pack-years and follow-up   *)
(* in tenths.                                                              *)
(***************************************************************************)
\* the widgets' values on the first run
DefaultWidgets ==
  [bpwms |-> 1, current_smoker |-> 1, pack_years |-> 25, age |-> 30, sex |-> 0, follow_up |-> 10]

\* the interaction terms and the dict `inputs` the script builds from the widgets
ScriptInputs(w) ==
  LET bpwms_smoker_interaction    == w.bpwms * w.current_smoker
      bpwms_packyears_interaction == w.bpwms * w.pack_years
  IN  << <<"BpwMS", 10 * w.bpwms>>,
         <<"Current Smoker", 10 * w.current_smoker>>,
         <<"BpwMS * Current Smoker", 10 * bpwms_smoker_interaction>>,
         <<"Pack-Years", w.pack_years>>,
         <<"BpwMS * Pack-Years", bpwms_packyears_interaction>>,
         <<"Age at Baseline", 10 * w.age>>,
         <<"Sex (Male)", 10 * w.sex>>,
         <<"Follow-up Interval", w.follow_up>> >>

(***************************************************************************)
(* Bounds: the values the widgets take and the dicts the functions are     *)
(* called with.                                                            *)
(***************************************************************************)
\* pack-years 0.0, 0.1, 2.5 (the default) and 130.0
PackYearsValues == {0, 1, 25, 1300}

\* follow-up 0.0, 1.0 (the default), 94.0, 100.0 and 2100.0 years
FollowUpValues == {0, 10, 940, 1000, 21000}

\* ages from the default to MaxAge
MaxAge == 31

AgeValues == DefaultWidgets.age..MaxAge

WidgetValues ==
  [bpwms : {0, 1}, current_smoker : {0, 1}, pack_years : PackYearsValues,
   age : AgeValues, sex : {0, 1}, follow_up : FollowUpValues]

\* d without the pair of `key`
Without(d, key) == SelectSeq(d, LAMBDA p : p[1] # key)

\* the dicts of the default subject, of a non-smoker and of a person without
\* MS, each with one of the eight keys left out
PartialDicts ==
  {Without(ScriptInputs([DefaultWidgets EXCEPT !.bpwms = b, !.current_smoker = c]), key) :
     b \in {0, 1}, c \in {0, 1}, key \in DictKeys(ScriptInputs(DefaultWidgets))}

\* the default subject's dict with a key the coefficient table does not have
ExtraKeyDicts == {Append(ScriptInputs(DefaultWidgets), <<"EDSS", 20>>)}

CovariateSets == {ScriptInputs(w) : w \in WidgetValues} \cup PartialDicts \cup ExtraKeyDicts

VARIABLES
  widgets,   \* the sidebar widgets' values
  inputs,    \* the caller's dict `inputs`
  passed,    \* `inputs` as it was when the last call was made
  called,    \* the function the last call was to, or "none"
  result,    \* the locals of the last call at its return, or what it raised
  screen     \* what the last run of the script rendered

vars == <<widgets, inputs, passed, called, result, screen>>

NoResult == [raised |-> "none"]

\* nothing rendered: the script has not run
Blank ==
  [warning |-> FALSE, button |-> FALSE, pressed |-> FALSE, error |-> "none",
   subheaders |-> << >>, pie |-> << >>]

(***************************************************************************)
(* The two functions called directly, on any dict.                         *)
(***************************************************************************)
Init ==
  /\ widgets = DefaultWidgets
  /\ inputs \in CovariateSets
  /\ passed = inputs
  /\ called = "none"
  /\ result = NoResult
  /\ screen = Blank

\* risk = calculate_risk(inputs)
CallRisk ==
  /\ called = "none"
  /\ called' = "calculate_risk"
  /\ passed' = inputs
  /\ result' \in calculate_risk(inputs)
  /\ UNCHANGED <<widgets, inputs, screen>>

\* calculate_smoking_cessation_benefit(inputs)
CallBenefit ==
  /\ called = "none"
  /\ called' = "calculate_smoking_cessation_benefit"
  /\ passed' = inputs
  /\ result' \in calculate_smoking_cessation_benefit(inputs)
  /\ inputs' = CallerInputsAfter(inputs)
  /\ UNCHANGED <<widgets, screen>>

Next == CallRisk \/ CallBenefit

Spec == Init /\ [][Next]_vars

(***************************************************************************)
(* The script.  Streamlit runs it from the top once at the start and again *)
(* after every widget change and every button press; the button returns    *)
(* True only in the run its press causes.                                  *)
(***************************************************************************)
\* the three subheaders, in the order they are written
Subheaders(value) ==
  << "Current Risk of Worsening: " \o Fmt2(value[2]) \o "%",
     "Risk of Worsening if Quit Smoking: " \o Fmt2(value[3]) \o "%",
     "Relative Risk Reduction from Smoking Cessation: " \o Fmt2(value[1]) \o "%" >>

\* sizes = [100 - relative_risk_reduction, relative_risk_reduction]
PieSizes(relative_risk_reduction) ==
  <<FSub(Hundred, relative_risk_reduction), relative_risk_reduction>>

\* a condition that looks at the first selectbox only
NoPlaques(w) == w.bpwms = 0

\* the condition of the warning: the subject is outside the model's population
OutOfPopulation(w) == w.bpwms = 0 \/ w.current_smoker = 0

\* what the script has done after the call in a run where the button is pressed
Display(ins, r) ==
  [inputs |-> CallerInputsAfter(ins), passed |-> ins,
   called |-> "calculate_smoking_cessation_benefit", result |-> r,
   screen |-> IF r.raised # "none"
              THEN [Blank EXCEPT !.button = TRUE, !.pressed = TRUE, !.error = r.raised]
              ELSE [Blank EXCEPT !.button = TRUE, !.pressed = TRUE,
                                 !.subheaders = Subheaders(r.value),
                                 !.pie = PieSizes(r.value[1])]]

\* the runs for the results rs the call can give
Displays(ins, rs) == {Display(ins, r) : r \in rs}

\* one run of the script with the widget values w; pressed is what the button
\* returns if the run reaches it.  The set of what the run can come to.
Script(w, pressed) ==
  IF OutOfPopulation(w)
  THEN {[inputs |-> ScriptInputs(w), passed |-> ScriptInputs(w), called |-> "none",
         result |-> NoResult, screen |-> [Blank EXCEPT !.warning = TRUE]]}
  ELSE IF ~pressed
  THEN {[inputs |-> ScriptInputs(w), passed |-> ScriptInputs(w), called |-> "none",
         result |-> NoResult, screen |-> [Blank EXCEPT !.button = TRUE]]}
  ELSE Displays(ScriptInputs(w), calculate_smoking_cessation_benefit(ScriptInputs(w)))

Rerun(w, pressed) ==
  \E run \in Script(w, pressed) :
    /\ widgets' = w
    /\ inputs' = run.inputs
    /\ passed' = run.passed
    /\ called' = run.called
    /\ result' = run.result
    /\ screen' = run.screen

InitUI ==
  \E run \in Script(DefaultWidgets, FALSE) :
    /\ widgets = DefaultWidgets
    /\ inputs = run.inputs
    /\ passed = run.passed
    /\ called = run.called
    /\ result = run.result
    /\ screen = run.screen

SelectBpwMS == \E v \in {1, 0} : v # widgets.bpwms /\ Rerun([widgets EXCEPT !.bpwms = v], FALSE)

SelectCurrentSmoker ==
  \E v \in {1, 0} : v # widgets.current_smoker /\ Rerun([widgets EXCEPT !.current_smoker = v], FALSE)

EnterPackYears ==
  \E v \in PackYearsValues : v # widgets.pack_years /\ Rerun([widgets EXCEPT !.pack_years = v], FALSE)

EnterAge == \E v \in AgeValues : v # widgets.age /\ Rerun([widgets EXCEPT !.age = v], FALSE)

SelectSex == \E v \in {0, 1} : v # widgets.sex /\ Rerun([widgets EXCEPT !.sex = v], FALSE)

EnterFollowUp ==
  \E v \in FollowUpValues : v # widgets.follow_up /\ Rerun([widgets EXCEPT !.follow_up = v], FALSE)

\* a press of "Calculate Risk and Benefits", which the last run must have rendered
PressCalculate == screen.button /\ Rerun(widgets, TRUE)

NextUI ==
  \/ SelectBpwMS
  \/ SelectCurrentSmoker
  \/ EnterPackYears
  \/ EnterAge
  \/ SelectSex
  \/ EnterFollowUp
  \/ PressCalculate

SpecUI == InitUI /\ [][NextUI]_vars
(***************************************************************************)
(* Properties.  A state of Spec is the moment after one call; a state of   *)
(* SpecUI is the moment after one run of the script.                       *)
(***************************************************************************)
RequiredKeys == DictKeys(ScriptInputs(DefaultWidgets))

RiskReturned == called = "calculate_risk" /\ result.raised = "none"

BenefitReturned == called = "calculate_smoking_cessation_benefit" /\ result.raised = "none"

\* the dict of the default subject with follow_up typed in
DefaultAfter(follow_up) == ScriptInputs([DefaultWidgets EXCEPT !.follow_up = follow_up])

\* C1: calculate_smoking_cessation_benefit raises UndefinedReduction whenever
\* the current risk it computes is exactly 0, and returns no triple then.
C1_ZeroRiskRaisesUndefinedReduction ==
  called = "calculate_smoking_cessation_benefit" =>
    /\ result.raised \in {"none", "UndefinedReduction"}
    /\ result.raised = "none" => ~IsZero(result.current_risk)

\* C1, the case: after 100.0 years the current risk is 0.0 and the call
\* returns (nan, 0.0, 0.0)
C1_ZeroRiskReturnsNaN ==
  /\ BenefitReturned
  /\ passed = DefaultAfter(1000)
  /\ IsZero(result.current_risk)
  /\ IsNaN(result.value[1])
  /\ IsZero(result.value[2])
  /\ IsZero(result.value[3])

\* C2: calculate_risk on a dict that lacks one of the eight keys raises
\* MissingCovariate and returns no risk.
C2_MissingKeyRaisesMissingCovariate ==
  (called = "calculate_risk" /\ ~(RequiredKeys \subseteq DictKeys(passed))) =>
    result.raised = "MissingCovariate"

\* C2, the case: without "Follow-up Interval" the default subject gets the
\* risk of a follow-up of 0.0 years
C2_MissingKeyReturnsRisk ==
  /\ RiskReturned
  /\ passed = Without(ScriptInputs(DefaultWidgets), "Follow-up Interval")
  /\ \E other \in calculate_risk(DefaultAfter(0)) :
       result.risk_of_worsening = other.risk_of_worsening
\* the intercept plus the products of the first n pairs of d, added in the
\* order of the pairs
LogOddsOfPrefix(d) ==
  LET sum[n \in 0..Len(d)] ==
        IF n = 0 THEN Coefficient("Intercept")
        ELSE FAdd(sum[n - 1], FMul(Coefficient(d[n][1]), Decimal(d[n][2], 10)))
  IN  sum[Len(d)]

\* 0.488 + 4.8613 + 16.8601 - 18.5033 + 0.1531*2.5 - 0.496*2.5 + 0.0056*30 + 0
\* + 0.3507*1.0, evaluated from the left
DefaultLogOdds ==
  FAdd(FAdd(FAdd(FSub(FAdd(FSub(FAdd(FAdd(Decimal(488, 1000), Decimal(48613, 10000)),
                                     Decimal(168601, 10000)),
                                Decimal(185033, 10000)),
                           FMul(Decimal(1531, 10000), Decimal(25, 10))),
                      FMul(Decimal(496, 1000), Decimal(25, 10))),
                 FMul(Decimal(56, 10000), FromInt(30))),
            FromInt(0)),
       FMul(Decimal(3507, 10000), Decimal(10, 10)))

\* C3: a returning calculate_risk yields 1 - odds / (1 + odds) with
\* odds = exp(log_odds), one of the floats next to e^log_odds, and log_odds
\* the intercept plus the sum over the pairs of the dict of coefficient times
\* value; for the default subject log_odds is the number DefaultLogOdds.
C3_RiskFormula ==
  RiskReturned =>
    /\ result.log_odds = LogOddsOfPrefix(passed)
    /\ result.odds \in FExp(result.log_odds)
    /\ result.risk_of_worsening
         = FSub(FromInt(1), FDiv(result.odds, FAdd(FromInt(1), result.odds)))
    /\ passed = ScriptInputs(DefaultWidgets) => result.log_odds = DefaultLogOdds

\* C3, the case: the default subject, whose risk lies strictly between 3% and 4%
C3_DefaultSubjectRisk ==
  /\ RiskReturned
  /\ passed = ScriptInputs(DefaultWidgets)
  /\ result.log_odds = DefaultLogOdds
  /\ FLt(Decimal(3, 100), result.risk_of_worsening)
  /\ FLt(result.risk_of_worsening, Decimal(4, 100))

\* C4: when exp(log_odds) overflows, calculate_risk returns a probability
\* of stability of 1 and a risk of worsening of 0.
C4_OverflowGivesRiskZero ==
  (RiskReturned /\ result.odds.k = "inf") =>
    /\ FEq(result.probability, One)
    /\ IsZero(result.risk_of_worsening)

\* C4, the case: after 2100.0 years odds is inf, and inf / (1 + inf) and the
\* risk are nan
C4_OverflowGivesNaN ==
  /\ RiskReturned
  /\ passed = DefaultAfter(21000)
  /\ result.odds = Inf(1)
  /\ IsNaN(result.probability)
  /\ IsNaN(result.risk_of_worsening)

\* C5: for a dict with "Current Smoker" = 0 and "BpwMS * Current Smoker" = 0
\* whose current risk is not 0, calculate_smoking_cessation_benefit returns
\* a risk without smoking equal to the current risk and a reduction of 0.
C5_NonSmokerNoReduction ==
  ( /\ BenefitReturned
    /\ {"Current Smoker", "BpwMS * Current Smoker"} \subseteq DictKeys(passed)
    /\ DictGet(passed, "Current Smoker") = 0
    /\ DictGet(passed, "BpwMS * Current Smoker") = 0
    /\ ~IsZero(result.current_risk) ) =>
      /\ FEq(result.risk_no_smoking, result.current_risk)
      /\ IsZero(result.relative_risk_reduction)
      /\ IsZero(result.value[1])

\* C5, the case: a non-smoker followed for 2100.0 years, whose two risks and
\* reduction are all nan
C5_NonSmokerOverflow ==
  /\ BenefitReturned
  /\ passed = ScriptInputs([DefaultWidgets EXCEPT !.current_smoker = 0, !.follow_up = 21000])
  /\ IsNaN(result.current_risk)
  /\ IsNaN(result.risk_no_smoking)
  /\ IsNaN(result.value[1])
SmokingKeys == {"Current Smoker", "BpwMS * Current Smoker"}

\* C6: the dict calculate_smoking_cessation_benefit evaluates as the
\* counterfactual has the two smoking keys at 0 and every other key at the
\* caller's value, and the caller's dict is after the call what it was before.
C6_CounterfactualIsCopy ==
  called = "calculate_smoking_cessation_benefit" =>
    /\ inputs = passed
    /\ result.raised = "none" =>
         /\ DictKeys(result.inputs_no_smoking) = DictKeys(passed) \cup SmokingKeys
         /\ \A key \in SmokingKeys : DictGet(result.inputs_no_smoking, key) = 0
         /\ \A key \in DictKeys(passed) \ SmokingKeys :
              DictGet(result.inputs_no_smoking, key) = DictGet(passed, key)

\* C6, the case: a smoker's dict, still a smoker's after the call
C6_SmokerDictKept ==
  /\ BenefitReturned
  /\ passed = ScriptInputs(DefaultWidgets)
  /\ DictGet(inputs, "Current Smoker") = 10
  /\ DictGet(inputs, "BpwMS * Current Smoker") = 10
  /\ DictGet(result.inputs_no_smoking, "Current Smoker") = 0
  /\ result.inputs_no_smoking # inputs

\* the covariate sets the claims call valid: all eight keys, binary flags,
\* non-negative amounts, the interaction terms equal to the products
ValidCovariates(d) ==
  /\ DictKeys(d) = RequiredKeys
  /\ Len(d) = Cardinality(RequiredKeys)
  /\ \A key \in {"BpwMS", "Current Smoker", "Sex (Male)"} : DictGet(d, key) \in {0, 10}
  /\ \A key \in {"Pack-Years", "Age at Baseline", "Follow-up Interval"} : DictGet(d, key) >= 0
  /\ 10 * DictGet(d, "BpwMS * Current Smoker") = DictGet(d, "BpwMS") * DictGet(d, "Current Smoker")
  /\ 10 * DictGet(d, "BpwMS * Pack-Years") = DictGet(d, "BpwMS") * DictGet(d, "Pack-Years")

\* C7: for a valid covariate set whose exponential does not overflow, the
\* risk calculate_risk returns is at least 0 and at most 1.
C7_RiskIsProbability ==
  (RiskReturned /\ ValidCovariates(passed) /\ result.odds.k # "inf") =>
    /\ FLe(FromInt(0), result.risk_of_worsening)
    /\ FLe(result.risk_of_worsening, FromInt(1))

\* C7, the case: 130.0 pack-years, where the risk is exactly 1
C7_RiskOne ==
  /\ RiskReturned
  /\ ValidCovariates(passed)
  /\ passed = ScriptInputs([DefaultWidgets EXCEPT !.pack_years = 1300])
  /\ result.odds.k = "fin"
  /\ FEq(result.risk_of_worsening, FromInt(1))

\* d with pack_years in place of its pack-years, BpwMS being 1
WithPackYears(d, pack_years) ==
  DictSet(DictSet(d, "Pack-Years", pack_years), "BpwMS * Pack-Years", pack_years)

\* C8: with BpwMS = 1, Current Smoker = 1 and everything else held fixed,
\* more pack-years give a strictly lower log-odds and a risk of worsening
\* that is not lower.
C8_RiskMonotoneInPackYears ==
  ( /\ RiskReturned
    /\ ValidCovariates(passed)
    /\ DictGet(passed, "BpwMS") = 10
    /\ DictGet(passed, "Current Smoker") = 10 ) =>
    \A pack_years \in PackYearsValues :
      pack_years > DictGet(passed, "Pack-Years") =>
        \A more \in calculate_risk(WithPackYears(passed, pack_years)) :
          /\ FLt(more.log_odds, result.log_odds)
          /\ FLe(result.risk_of_worsening, more.risk_of_worsening)

\* C8, the case: after 94.0 years the risk is positive at 0.0 pack-years and
\* 0.0 at 0.1 pack-years, although the log-odds went down (np.exp rounding
\* both arguments to nearest)
C8_RiskDrops ==
  /\ RiskReturned
  /\ passed = ScriptInputs([DefaultWidgets EXCEPT !.pack_years = 0, !.follow_up = 940])
  /\ FLt(FromInt(0), result.risk_of_worsening)
  /\ \E more \in calculate_risk(WithPackYears(passed, 1)) :
       /\ FLt(more.log_odds, result.log_odds)
       /\ IsZero(more.risk_of_worsening)
\* C9: a run of the script calls calculate_smoking_cessation_benefit only
\* with BpwMS = 1, Current Smoker = 1 and the button pressed; a run with
\* BpwMS = 0 or Current Smoker = 0 shows the warning, calls nothing, shows
\* no subheader and no chart, and raises nothing.
C9_CalculationOnlyInPopulation ==
  /\ called \in {"none", "calculate_smoking_cessation_benefit"}
  /\ called = "calculate_smoking_cessation_benefit" =>
       /\ widgets.bpwms = 1
       /\ widgets.current_smoker = 1
       /\ screen.pressed
       /\ passed = ScriptInputs(widgets)
  /\ (widgets.bpwms = 0 \/ widgets.current_smoker = 0) =>
       /\ screen.warning
       /\ called = "none"
       /\ result = NoResult
       /\ screen.subheaders = << >>
       /\ screen.pie = << >>
       /\ screen.error = "none"
       /\ ~screen.button

\* C9, the case: the run after "Current Smoker" is set to 0
C9_WarningShown ==
  /\ widgets.bpwms = 1
  /\ widgets.current_smoker = 0
  /\ screen.warning
  /\ called = "none"
  /\ screen.subheaders = << >>

\* a call the script made for a subject it admits, with a positive current risk
ScriptCallWithRisk ==
  /\ BenefitReturned
  /\ ValidCovariates(passed)
  /\ DictGet(passed, "BpwMS") = 10
  /\ DictGet(passed, "Current Smoker") = 10
  /\ FLt(FromInt(0), result.current_risk)

\* C10, as stated: for every dict the script passes with a positive current
\* risk, the log-odds without smoking is higher, the risk without smoking is
\* lower, the reduction lies strictly between 0 and 100, and both pie sizes
\* are positive.
C10_StrictReduction ==
  ScriptCallWithRisk =>
    /\ FLt(result.log_odds, result.log_odds_no_smoking)
    /\ FLt(result.risk_no_smoking, result.current_risk)
    /\ FLt(FromInt(0), result.value[1])
    /\ FLt(result.value[1], FromInt(100))
    /\ screen.pie = <<FSub(FromInt(100), result.value[1]), result.value[1]>>
    /\ FLt(FromInt(0), screen.pie[1])
    /\ FLt(FromInt(0), screen.pie[2])

\* C10, amended: for every dict the script passes with a positive current
\* risk, the log-odds without smoking is not lower, the risk without smoking
\* is not higher, the reduction lies between 0 and 100 inclusive, and neither
\* pie size is negative.
C10_Reduction ==
  ScriptCallWithRisk =>
    /\ FLe(result.log_odds, result.log_odds_no_smoking)
    /\ FLe(result.risk_no_smoking, result.current_risk)
    /\ FLe(FromInt(0), result.value[1])
    /\ FLe(result.value[1], FromInt(100))
    /\ screen.pie = <<FSub(FromInt(100), result.value[1]), result.value[1]>>
    /\ FLe(FromInt(0), screen.pie[1])
    /\ FLe(FromInt(0), screen.pie[2])

\* C10, the case: at 130.0 pack-years both risks are 100%, the reduction is
\* 0.0 and the pie sizes are 100.0 and 0.0
C10_NoReduction ==
  /\ ScriptCallWithRisk
  /\ widgets = [DefaultWidgets EXCEPT !.pack_years = 1300]
  /\ FLt(result.log_odds, result.log_odds_no_smoking)
  /\ FEq(result.risk_no_smoking, result.current_risk)
  /\ IsZero(result.value[1])
  /\ FEq(screen.pie[1], FromInt(100))
  /\ IsZero(screen.pie[2])
====
